---- MODULE Spec2Model ----
(***************************************************************************)
(* commode: the client of the Cabinet file server.                         *)
(*                                                                         *)
(* The model covers the entry layer (FileEntry, Boilerplate), the two      *)
(* shelve caches it keeps, and the Server transport it calls.  An entry    *)
(* operation is split at its blocking network calls: Invoke runs the code  *)
(* up to the first request, each Respond action is the remote answering    *)
(* and the code running on to the next request or to the return/raise.     *)
(* The remote (the Cabinet server) is the environment: it answers a        *)
(* request as HTTP conditional requests prescribe, or with a fault, and    *)
(* other clients change it at any time.                                    *)
(***************************************************************************)
EXTENDS Integers, Sequences, FiniteSets, TLC

(* ------------------------------ bounds --------------------------------- *)

\* Entity tags the remote hands out: every change of a resource gets a fresh one.
MaxTag == 2

\* Files a boilerplate that is uploaded with its files refers to.
MaxFiles == 2

(* ------------------------------ values --------------------------------- *)

NS == {"files", "boilerplates"}

Names == {"a", "b"}

\* The name the calls and the other clients of Spec work on; SpecFrame takes
\* every name.
Own == {"a"}

\* What a caller writes: a file text or a boilerplate's path mapping.
Payloads == {"p1", "p2"}

\* Python's None for a payload.
NoContent == "None"

\* Python's None for an etag or a timestamp header value.
NoTag == 0

\* The entry objects of the process: two, so that one can act on a name
\* between two operations of the other.
EntryIds == {1, 2}

Ops == {"read", "write", "delete"}

\* FileData / BoilerplateData: namedtuple (etag, modified, content|files),
\* every field None by default.  An Optional[...] that is None is modelled by
\* the same value: `self._data or FileData()` reads both alike.
NoData == [etag |-> NoTag, modified |-> NoTag, content |-> NoContent]

Data(e, m, c) == [etag |-> e, modified |-> m, content |-> c]

\* namedtuple._replace(content=...)
Replace(d, c) == [d EXCEPT !.content = c]

Key(ns, name) == <<ns, name>>

Keys == NS \X Names

VARIABLES
    remote,     \* the server: Keys -> the resource's (etag, last-modified, body), NoData when absent
    nextTag,    \* the next fresh entity tag of the server
    cache,      \* the two shelve files: Keys -> cached FileData/BoilerplateData, NoData when no key
    entries,    \* the entry objects of the process: EntryIds -> [ns, name, data]
    pc,         \* where the running entry operation is: "idle" or waiting on a request
    cur,        \* the running operation and the requests it made so far
    prev,       \* the write or delete that just succeeded, nothing having happened since
    resp,       \* a transport method classifying a response: method, status, outcome
    store,      \* the shelve files that are open: a set of namespaces
    shown,      \* the last command when it was a `commode cache` one, and what it printed
    sess        \* a command running its requests inside `with srv:`

vars == <<remote, nextTag, cache, entries, pc, cur, prev, resp, store, shown, sess>>

(* ------------------------- server.py: requests ------------------------- *)

\* headers = {}; if etag: headers[...] = etag; if modified: headers[...] = modified
\* (server.py:64-68, 132-136, 168-172): a None value sends no header.
CondHeadersNone(etag, mod) == [etag |-> NoTag, since |-> NoTag]

CondHeaders(etag, mod) == [etag |-> etag, since |-> mod]

Request(method, ns, name, h, body) ==
    [method |-> method, ns |-> ns, name |-> name,
     etag |-> h.etag, since |-> h.since, body |-> body]

\* get_file / get_boilerplate: If-None-Match, If-Modified-Since
GetRequest(ns, name, etag, mod) ==
    Request("get", ns, name, CondHeaders(etag, mod), NoContent)

\* file_head: no headers at all
HeadRequest(ns, name) ==
    Request("head", ns, name, [etag |-> NoTag, since |-> NoTag], NoContent)

\* put_file / put_boilerplate: If-Match, If-Unmodified-Since, the payload as body
PutRequest(ns, name, body, etag, mod) ==
    Request("put", ns, name, CondHeaders(etag, mod), body)

\* delete_file / delete_boilerplate: If-Match, If-Unmodified-Since
DeleteRequestBare(ns, name, etag, mod) ==
    Request("delete", ns, name, [etag |-> NoTag, since |-> NoTag], NoContent)

DeleteRequest(ns, name, etag, mod) ==
    Request("delete", ns, name, CondHeaders(etag, mod), NoContent)

NoRequest == Request("none", "files", "a", [etag |-> NoTag, since |-> NoTag], NoContent)

(* ---------------------- server.py: classification ---------------------- *)

TransportOps ==
    {"get_file", "file_head", "put_file", "delete_file",
     "get_dir", "put_dir", "delete_dir",
     "get_boilerplate_names", "get_boilerplate", "put_boilerplate",
     "delete_boilerplate"}

\* The method of Server an entry's request goes through.
TransportOp(ns, method) ==
    IF ns = "files"
    THEN CASE method = "get" -> "get_file"
           [] method = "head" -> "file_head"
           [] method = "put" -> "put_file"
           [] OTHER -> "delete_file"
    ELSE CASE method = "put" -> "put_boilerplate"
           [] method = "delete" -> "delete_boilerplate"
           [] OTHER -> "get_boilerplate"

\* The status codes a method of Server compares r.status_code with.
Tested(op) ==
    CASE op = "get_file" -> {304, 400, 404}
      [] op = "file_head" -> {400, 404}
      [] op = "put_file" -> {400, 412}
      [] op = "delete_file" -> {400, 404, 412}
      [] op = "get_dir" -> {400, 404}
      [] op = "put_dir" -> {400}
      [] op = "delete_dir" -> {400, 404}
      [] op = "get_boilerplate_names" -> {}
      [] op = "get_boilerplate" -> {304, 404}
      [] op = "put_boilerplate" -> {400, 412}
      [] op = "delete_boilerplate" -> {404, 412}

\* What a tested code turns into: return None (304) or the exception raised.
TestedOutcome(code) ==
    CASE code = 304 -> "NotModified"
      [] code = 400 -> "BadRequest"
      [] code = 404 -> "NotFound"
      [] code = 412 -> "PreconditionFailed"

\* `if r.status_code >= 300: raise Exception(r.text)`
FailEarlyLax(code) == code > 300

FailEarly(code) == code >= 300

\* The if-chain each method of Server runs on the response.
Classify(op, code) ==
    IF code \in Tested(op) THEN TestedOutcome(code)
    ELSE IF FailEarly(code) THEN "UnexpectedStatus"
    ELSE "Success"

\* _request: a requests.ConnectionError becomes Error('Server connection
\* error'), any response goes to the method's if-chain.
Outcome(op, ans) ==
    IF ans.conn THEN "ConnectionFailure" ELSE Classify(op, ans.status)

\* The exception class a transport outcome is raised as ("" when the method
\* returns instead).
RaisedLax(outcome) ==
    CASE outcome = "BadRequest" -> "BadRequest"
      [] outcome = "NotFound" -> "NotFound"
      [] outcome = "PreconditionFailed" -> "PreconditionFailed"
      [] outcome = "ConnectionFailure" -> "Error"
      [] OTHER -> ""

RaisedAbsorbNotFound(outcome) ==
    CASE outcome = "BadRequest" -> "BadRequest"
      [] outcome = "PreconditionFailed" -> "PreconditionFailed"
      [] outcome = "ConnectionFailure" -> "Error"
      [] outcome = "UnexpectedStatus" -> "Exception"
      [] OTHER -> ""

RaisedAbsorbPrecondition(outcome) ==
    CASE outcome = "BadRequest" -> "BadRequest"
      [] outcome = "NotFound" -> "NotFound"
      [] outcome = "ConnectionFailure" -> "Error"
      [] outcome = "UnexpectedStatus" -> "Exception"
      [] OTHER -> ""

Raised(outcome) ==
    CASE outcome = "BadRequest" -> "BadRequest"
      [] outcome = "NotFound" -> "NotFound"
      [] outcome = "PreconditionFailed" -> "PreconditionFailed"
      [] outcome = "ConnectionFailure" -> "Error"
      [] outcome = "UnexpectedStatus" -> "Exception"
      [] OTHER -> ""

(* --------------------- the remote (Cabinet server) --------------------- *)

\* The status a server that honours HTTP conditional requests answers with.
\* If-None-Match / If-Match decide when present; the timestamp condition
\* decides only without them.  A changed resource has a fresh entity tag.
NaturalStatus(req, r) ==
    CASE req.method = "get" ->
           IF r = NoData THEN 404
           ELSE IF req.etag # NoTag THEN (IF req.etag = r.etag THEN 304 ELSE 200)
           ELSE IF req.since # NoTag /\ r.modified <= req.since THEN 304
           ELSE 200
      [] req.method = "head" ->
           IF r = NoData THEN 404 ELSE 200
      [] req.method = "put" ->
           IF req.etag # NoTag
           THEN (IF r = NoData \/ r.etag # req.etag THEN 412 ELSE 204)
           ELSE IF req.since # NoTag /\ (r = NoData \/ r.modified > req.since) THEN 412
           ELSE IF r = NoData THEN 201
           ELSE 204
      [] req.method = "delete" ->
           IF r = NoData THEN 404
           ELSE IF req.etag # NoTag THEN (IF r.etag # req.etag THEN 412 ELSE 204)
           ELSE IF req.since # NoTag /\ r.modified > req.since THEN 412
           ELSE 204

\* Statuses a request can also be answered with whatever the resource's state
\* (a redirect, a type mismatch, a server error, ...); the request is not applied.
FaultCodes == {304, 400, 404, 412, 500}

Answer(conn, status) == [conn |-> conn, status |-> status]

\* What the environment may answer: the server's status, a fault status, or
\* no response at all (requests.ConnectionError).
Answers(req, r) ==
    {Answer(FALSE, NaturalStatus(req, r))}
        \cup {Answer(FALSE, c) : c \in FaultCodes}
        \cup {Answer(TRUE, 0)}

\* The request changes the resource: the server's own status is a 2xx one.
Applied(req, r, ans) ==
    /\ ~ans.conn
    /\ ans.status = NaturalStatus(req, r)
    /\ ans.status < 300
    /\ req.method \in {"put", "delete"}

\* The resource after the request.
After(req, r, ans, tag) ==
    IF ~Applied(req, r, ans) THEN r
    ELSE IF req.method = "put" THEN Data(tag, tag, req.body)
    ELSE NoData

\* What a 2xx response carries: headers etag and last-modified, and for a
\* GET the body.
CarriedHeaders(req, r) == Replace(r, NoContent)

Carried(req, r) ==
    IF req.method = "get" THEN r ELSE Replace(r, NoContent)

(* --------------- file_entry.py / boilerplate.py: the cache ------------- *)

\* _read_cache inside _safe_data: cache[self.name], and NotCached (KeyError)
\* absorbed, which leaves self._data None.
ReadCache(ns, name) == cache[Key(ns, name)]

\* _safe_data: the cache is read only `if self._data is None`; the entry's
\* _data after the call (the call returns `self._data or FileData()`).
SafeData(e) == IF e.data = NoData THEN ReadCache(e.ns, e.name) ELSE e.data

\* _write_cache: cache[self.name] = self._data
WriteCacheShared(c, ns, name, d) ==
    [k \in Keys |-> IF k[2] = name THEN d ELSE c[k]]

WriteCache(c, ns, name, d) == [c EXCEPT ![Key(ns, name)] = d]

\* _delete_cache: del cache[self.name], KeyError passed over
DeleteCache(c, ns, name) == [c EXCEPT ![Key(ns, name)] = NoData]

\* _delete_cache: what it raises; `except KeyError: pass` for a name that
\* has no key.
DeleteCacheKeyError(c, ns, name) ==
    IF c[Key(ns, name)] = NoData THEN "KeyError" ELSE ""

DeleteCacheRaised(c, ns, name) == ""

\* shelve.open(common.FILES_CACHE | common.BOILERPLATE_CACHE)
StoreOpen(s, ns) == s \cup {ns}

\* Shelf.close(), which the shelf's __exit__ calls
StoreClose(s, ns) == s \ {ns}

\* `with shelve.open(...) as cache: <body>`: the shelf is open over the body
\* and closed when the block is left, by the body's end or by an exception
\* raised in it.
WithStoreLeak(s, ns, raises) ==
    IF raises THEN StoreOpen(s, ns) ELSE StoreClose(StoreOpen(s, ns), ns)

WithStore(s, ns, raises) == StoreClose(StoreOpen(s, ns), ns)

\* _read_cache: `raise NotCached(self.name)` on a KeyError leaves the block.
ReadCacheStore(s, ns, name) == WithStore(s, ns, cache[Key(ns, name)] = NoData)

\* _write_cache: NotCacheable is raised before the shelf is opened.
WriteCacheStore(s, ns) == WithStore(s, ns, FALSE)

\* _delete_cache: the KeyError is passed over inside the block.
DeleteCacheStore(s, ns) == WithStore(s, ns, FALSE)

\* _safe_data: `if self._data is None:` decides whether the shelf is read.
Consults(e) == e.data = NoData

\* _safe_data: _read_cache is called only `if self._data is None`.
SafeDataStore(s, e) ==
    IF e.data = NoData THEN ReadCacheStore(s, e.ns, e.name) ELSE s

\* `commode cache files` / `commode cache boilerplates`: nothing is printed
\* for an empty shelf, else one line (name, last modified, etag) per key.
Listing(c, ns) ==
    {<<k[2], c[k].modified, c[k].etag>> : k \in {q \in Keys : q[1] = ns /\ c[q] # NoData}}

(* ------------------------------ the state ------------------------------ *)

NoCur ==
    [op |-> "none", entry |-> 1, ns |-> "files", name |-> "a", arg |-> NoContent,
     cache0 |-> [k \in Keys |-> NoData], req |-> NoRequest, log |-> <<>>,
     outcome |-> "none", raised |-> "", ret |-> NoContent, consulted |-> FALSE]

\* The call right before the running one, when it was an update() or a
\* delete() that returned without raising: the entry that made it, what it
\* wrote, whether a payload came down from the remote in it, and whether it
\* came itself right after such an update() of the same resource.
NoPrev ==
    [op |-> "none", ns |-> "files", name |-> "a", entry |-> 1,
     arg |-> NoContent, down |-> FALSE, wrote |-> FALSE]

NoResp == [op |-> "none", conn |-> FALSE, status |-> 0, outcome |-> "none"]

\* No command has entered `with srv:` yet; Server._session is None.
NoSess ==
    [pc |-> "out", cmd |-> "none", todo |-> 0, held |-> NoTag, made |-> 0,
     open |-> {}, log |-> <<>>, failed |-> "", finished |-> FALSE]

\* No `commode cache` command is the last thing that happened.
NoShown == [cmd |-> "none", lines |-> {}, cleared |-> FALSE]

Resp(op, ans) ==
    [op |-> op, conn |-> ans.conn, status |-> ans.status, outcome |-> Outcome(op, ans)]

\* One request of the running operation, as the remote saw it.
Logged(req, ans, out, before, after) ==
    [req |-> req, outcome |-> out, before |-> before, after |-> after,
     fault |-> ans.conn \/ ans.status # NaturalStatus(req, before),
     down |-> IF out = "Success" /\ req.method = "get" THEN before.content ELSE NoContent]

Init ==
    /\ remote = [k \in Keys |-> NoData]
    /\ nextTag = 1
    /\ cache = [k \in Keys |-> NoData]
    /\ entries = [i \in EntryIds |-> [ns |-> "files", name |-> "a", data |-> NoData]]
    /\ pc = "idle"
    /\ cur = NoCur
    /\ prev = NoPrev
    /\ resp = NoResp
    /\ store = {}
    /\ shown = NoShown
    /\ sess = NoSess

(* --------------------- the caller and the environment ------------------ *)

\* FileEntry(name) / Boilerplate(name): a new entry object, _data = None.
Construct(i, ns, name) ==
    /\ pc = "idle"
    /\ entries' = [entries EXCEPT ![i] = [ns |-> ns, name |-> name, data |-> NoData]]
    /\ shown' = NoShown
    /\ UNCHANGED <<remote, nextTag, cache, pc, cur, prev, resp, store, sess>>

\* The client is single threaded: it sees a change of the remote only between
\* two of its requests, that is between two calls, or between the write
\* request of update() and the request that follows it on the same resource.
Seen(k) == pc = "idle" \/ (pc = "refresh" /\ k = Key(cur.ns, cur.name))

\* Another client changes or creates the resource.
ExternalPut(k, p) ==
    /\ Seen(k)
    /\ nextTag <= MaxTag
    /\ remote' = [remote EXCEPT ![k] = Data(nextTag, nextTag, p)]
    /\ nextTag' = nextTag + 1
    /\ prev' = NoPrev
    /\ shown' = NoShown
    /\ UNCHANGED <<cache, entries, pc, cur, resp, store, sess>>

\* Another client deletes the resource.
ExternalDelete(k) ==
    /\ Seen(k)
    /\ remote[k] # NoData
    /\ remote' = [remote EXCEPT ![k] = NoData]
    /\ prev' = NoPrev
    /\ shown' = NoShown
    /\ UNCHANGED <<nextTag, cache, entries, pc, cur, resp, store, sess>>

\* cache.clear() on one shelf.
Cleared(c, ns) == [k \in Keys |-> IF k[1] = ns THEN NoData ELSE c[k]]

ClearedFilesOnly(c) == Cleared(c, "files")

\* `commode cache clear`: the file shelf, then the boilerplate shelf.
ClearedAll(c) == Cleared(Cleared(c, "files"), "boilerplates")

CacheClear ==
    /\ pc = "idle"
    /\ cache' = ClearedAll(cache)
    /\ store' = WithStore(WithStore(store, "files", FALSE), "boilerplates", FALSE)
    /\ shown' = [cmd |-> "clear", lines |-> {}, cleared |-> TRUE]
    /\ prev' = NoPrev
    /\ UNCHANGED <<remote, nextTag, entries, pc, cur, resp, sess>>

\* `commode cache files` / `commode cache boilerplates`
CacheList(ns) ==
    /\ pc = "idle"
    /\ store' = WithStore(store, ns, FALSE)
    /\ shown' = [cmd |-> ns, lines |-> Listing(cache, ns), cleared |-> shown.cleared]
    /\ prev' = NoPrev
    /\ UNCHANGED <<remote, nextTag, cache, entries, pc, cur, resp, sess>>

(* ------------------------- the entry operations ------------------------ *)

\* The first request of content()/files(), update(), delete(), built from
\* `etag, mod, _ = self._safe_data()`.
FirstRequest(op, ns, name, arg, d) ==
    CASE op = "read" -> GetRequest(ns, name, d.etag, d.modified)
      [] op = "write" -> PutRequest(ns, name, arg, d.etag, d.modified)
      [] op = "delete" -> DeleteRequest(ns, name, d.etag, d.modified)

FirstPc(op) ==
    CASE op = "read" -> "fetch" [] op = "write" -> "put" [] op = "delete" -> "delete"

\* content()/files(), update(content|files), delete() up to the first request.
Invoke(i, op, arg) ==
    /\ pc = "idle"
    /\ (op = "write") = (arg # NoContent)
    /\ LET e == entries[i]
           d == SafeData(e)
       IN /\ entries' = [entries EXCEPT ![i].data = d]
          /\ cur' = [op |-> op, entry |-> i, ns |-> e.ns, name |-> e.name, arg |-> arg,
                     cache0 |-> cache,
                     req |-> FirstRequest(op, e.ns, e.name, arg, d),
                     log |-> <<>>, outcome |-> "none", raised |-> "", ret |-> NoContent,
                     consulted |-> Consults(e)]
          /\ pc' = FirstPc(op)
          /\ store' = SafeDataStore(store, e)
    /\ shown' = NoShown
    /\ UNCHANGED <<remote, nextTag, cache, prev, resp, sess>>

\* The operation returns or raises.
Finish(log, outcome, raised, ret) ==
    /\ pc' = "done"
    /\ cur' = [cur EXCEPT !.req = NoRequest, !.log = log, !.outcome = outcome,
                          !.raised = raised, !.ret = ret]

\* What get_file / get_boilerplate / file_head return: the FileData or
\* BoilerplateData built from a 2xx response, None after a 304.
ReturnedNothing(req, r, out) == NoData

Returned(req, r, out) == IF out = "Success" THEN Carried(req, r) ELSE NoData

\* `assert self._data is not None` before `return self._data.content`
AssertHeldOff(d) == ""

AssertHeld(d) == IF d = NoData THEN "AssertionError" ELSE ""

\* content() / files() from the answer of get_file / get_boilerplate on.
RespondFetch ==
    /\ pc = "fetch"
    /\ \E ans \in Answers(cur.req, remote[Key(cur.ns, cur.name)]) :
         LET r == remote[Key(cur.ns, cur.name)]
             top == TransportOp(cur.ns, "get")
             out == Outcome(top, ans)
             data == Returned(cur.req, r, out)
             e == entries[cur.entry]
             kept == IF data # NoData THEN data ELSE e.data
             log == Append(cur.log, Logged(cur.req, ans, out, r, r))
         IN /\ IF Raised(out) = ""
               THEN /\ entries' = [entries EXCEPT ![cur.entry].data = kept]
                    /\ cache' = IF data # NoData
                                THEN WriteCache(cache, cur.ns, cur.name, kept)
                                ELSE cache
                    /\ store' = IF data # NoData
                                THEN WriteCacheStore(store, cur.ns)
                                ELSE store
                    /\ IF AssertHeld(kept) # ""
                       THEN Finish(log, out, AssertHeld(kept), NoContent)
                       ELSE Finish(log, out, "", kept.content)
               ELSE /\ Finish(log, out, Raised(out), NoContent)
                    /\ UNCHANGED <<entries, cache, store>>
    /\ UNCHANGED <<remote, nextTag, prev, resp, shown, sess>>

\* The request update() sends after the write went through: file_head(name)
\* for a file, get_boilerplate(name) without etag for a boilerplate.
RefreshRequest(ns, name) ==
    IF ns = "files" THEN HeadRequest(ns, name) ELSE GetRequest(ns, name, NoTag, NoTag)

\* update(): `except PreconditionFailed: raise Error(...)` around the write
\* request; every other exception of it passes through.
ConflictError(raised) == IF raised = "PreconditionFailed" THEN "Error" ELSE raised

\* update(): file_head / get_boilerplate is reached only when the write
\* request raised nothing.
AfterPutAlways(raised) == "refresh"

AfterPut(raised) == IF raised = "" THEN "refresh" ELSE "done"

\* update() from the answer of put_file / put_boilerplate on.
RespondPut ==
    /\ pc = "put"
    /\ \E ans \in Answers(cur.req, remote[Key(cur.ns, cur.name)]) :
         LET r == remote[Key(cur.ns, cur.name)]
             top == TransportOp(cur.ns, "put")
             out == Outcome(top, ans)
             after == After(cur.req, r, ans, nextTag)
             log == Append(cur.log, Logged(cur.req, ans, out, r, after))
         IN /\ Applied(cur.req, r, ans) => nextTag <= MaxTag
            /\ remote' = [remote EXCEPT ![Key(cur.ns, cur.name)] = after]
            /\ nextTag' = IF Applied(cur.req, r, ans) THEN nextTag + 1 ELSE nextTag
            /\ IF AfterPut(Raised(out)) = "refresh"
               THEN /\ pc' = "refresh"
                    /\ cur' = [cur EXCEPT !.req = RefreshRequest(cur.ns, cur.name),
                                          !.log = log]
               ELSE Finish(log, out, ConflictError(Raised(out)), NoContent)
    /\ UNCHANGED <<cache, entries, prev, resp, store, shown, sess>>

\* What update() assigns to self._data: data._replace(content=content) for a
\* file, the fetched BoilerplateData (None after a 304) for a boilerplate.
UpdatedDataFetched(ns, data, arg) == data

UpdatedData(ns, data, arg) ==
    IF ns = "files" THEN Replace(data, arg) ELSE data

\* update() from the answer of file_head / get_boilerplate on.
RespondRefresh ==
    /\ pc = "refresh"
    /\ \E ans \in Answers(cur.req, remote[Key(cur.ns, cur.name)]) :
         LET r == remote[Key(cur.ns, cur.name)]
             top == TransportOp(cur.ns, cur.req.method)
             out == Outcome(top, ans)
             data == Returned(cur.req, r, out)
             new == UpdatedData(cur.ns, data, cur.arg)
             log == Append(cur.log, Logged(cur.req, ans, out, r, r))
         IN /\ IF Raised(out) = ""
               THEN /\ entries' = [entries EXCEPT ![cur.entry].data = new]
                    /\ IF new = NoData
                       THEN /\ Finish(log, out, "NotCacheable", NoContent)
                            /\ UNCHANGED <<cache, store>>
                       ELSE /\ cache' = WriteCache(cache, cur.ns, cur.name, new)
                            /\ store' = WriteCacheStore(store, cur.ns)
                            /\ Finish(log, out, "", NoContent)
               ELSE /\ Finish(log, out, Raised(out), NoContent)
                    /\ UNCHANGED <<entries, cache, store>>
    /\ UNCHANGED <<remote, nextTag, prev, resp, shown, sess>>

\* delete() from the answer of delete_file / delete_boilerplate on.
RespondDelete ==
    /\ pc = "delete"
    /\ \E ans \in Answers(cur.req, remote[Key(cur.ns, cur.name)]) :
         LET r == remote[Key(cur.ns, cur.name)]
             top == TransportOp(cur.ns, "delete")
             out == Outcome(top, ans)
             after == After(cur.req, r, ans, nextTag)
             log == Append(cur.log, Logged(cur.req, ans, out, r, after))
         IN /\ remote' = [remote EXCEPT ![Key(cur.ns, cur.name)] = after]
            /\ IF Raised(out) = ""
               THEN /\ cache' = DeleteCache(cache, cur.ns, cur.name)
                    /\ store' = DeleteCacheStore(store, cur.ns)
                    /\ Finish(log, out, DeleteCacheRaised(cache, cur.ns, cur.name),
                              NoContent)
               ELSE /\ Finish(log, out, Raised(out), NoContent)
                    /\ UNCHANGED <<cache, store>>
    /\ UNCHANGED <<nextTag, entries, prev, resp, shown, sess>>

\* The caller has the result (or the exception) of the call.
Return ==
    /\ pc = "done"
    /\ pc' = "idle"
    /\ cur' = NoCur
    /\ prev' = IF cur.raised = "" /\ cur.op \in {"write", "delete"}
                THEN [op |-> cur.op, ns |-> cur.ns, name |-> cur.name,
                      entry |-> cur.entry, arg |-> cur.arg,
                      down |-> \E j \in 1..Len(cur.log) : cur.log[j].down # NoContent,
                      wrote |-> /\ cur.op = "delete" /\ prev.op = "write"
                                /\ prev.ns = cur.ns /\ prev.name = cur.name]
                ELSE NoPrev
    /\ UNCHANGED <<remote, nextTag, cache, entries, resp, store, shown, sess>>

Next ==
    \/ \E i \in EntryIds, ns \in NS, name \in Own : Construct(i, ns, name)
    \/ \E k \in NS \X Own, p \in Payloads : ExternalPut(k, p)
    \/ \E k \in NS \X Own : ExternalDelete(k)
    \/ CacheClear
    \/ \E ns \in NS : CacheList(ns)
    \/ \E i \in EntryIds, op \in Ops, arg \in Payloads \cup {NoContent} : Invoke(i, op, arg)
    \/ RespondFetch
    \/ RespondPut
    \/ RespondRefresh
    \/ RespondDelete
    \/ Return

Spec == Init /\ [][Next]_vars

(* --------------- entries of several names and namespaces --------------- *)

\* The entry operations on every name of both namespaces, the remote being
\* changed by other clients: one entry object is made anew for any name of
\* either namespace, the other stays the entry of file "a".
NextFrame ==
    \/ \E ns \in NS, name \in Names : Construct(1, ns, name)
    \/ \E k \in Keys : ExternalPut(k, "p2")
    \/ \E i \in EntryIds, op \in Ops, arg \in {"p1", NoContent} : Invoke(i, op, arg)
    \/ RespondFetch
    \/ RespondPut
    \/ RespondRefresh
    \/ RespondDelete
    \/ Return

SpecFrame == Init /\ [][NextFrame]_vars

(* ------------- the transport methods on their own (server.py) ---------- *)

\* The statuses a response is tried with: informational, success, redirect,
\* client-error and server-error ones, the tested codes among them.
StatusCodes == {100, 200, 201, 204, 299, 300, 301, 304, 400, 401, 404, 412, 500, 503}

\* One method of Server gets its response, or _request raises.
TransportCall(op, ans) ==
    /\ resp' = Resp(op, ans)
    /\ UNCHANGED <<remote, nextTag, cache, entries, pc, cur, prev, store, shown, sess>>

NextClassify ==
    \E op \in TransportOps :
        \E ans \in {Answer(FALSE, c) : c \in StatusCodes} \cup {Answer(TRUE, 0)} :
            TransportCall(op, ans)

SpecClassify == Init /\ [][NextClassify]_vars

(* ------------- a command inside `with srv:` (__init__.py, server.py) --- *)

Commands == {"install", "upload"}

\* Session(): one more session object, open until it is closed.
SessionNew(x) == [x EXCEPT !.made = @ + 1, !.open = @ \cup {x.made + 1}]

\* Session.close(), also what leaving `with Session() as session` does.
SessionClose(x, id) == [x EXCEPT !.open = @ \ {id}]

\* `s = self._session or session`
ViaScratch(held, scratch) == scratch

Via(held, scratch) == IF held # NoTag THEN held ELSE scratch

\* `with srv:` of install (bp = srv.get_boilerplate(name), then the files)
\* and of `boilerplate upload` (the files when --upload-files is given, then
\* the boilerplate); __enter__: self._session = Session().
SessionEnter(cmd, n) ==
    /\ sess.pc = "out"
    /\ cmd = "install" => n = 0
    /\ sess' = [SessionNew(sess) EXCEPT !.pc = "body", !.cmd = cmd, !.todo = n,
                                        !.held = sess.made + 1]
    /\ UNCHANGED <<remote, nextTag, cache, entries, pc, cur, prev, resp, store, shown>>

\* The method of Server the body calls next.
SessionOp ==
    IF sess.cmd = "install" THEN "get_boilerplate"
    ELSE IF sess.todo > 0 THEN "put_file"
    ELSE "put_boilerplate"

\* The body is at a call of a method of Server.
AtRequest ==
    /\ sess.pc = "body" /\ sess.failed = "" /\ ~sess.finished
    /\ sess.cmd = "install" => Len(sess.log) = 0

\* One method of Server called in the body.  _request opens a scratch
\* session, sends through `self._session or session`, turns a
\* ConnectionError into Error and leaves the scratch block; the method then
\* classifies the response.
SessionRequest(ans) ==
    /\ AtRequest
    /\ LET x == SessionNew(sess)
           scratch == x.made
           out == Outcome(SessionOp, ans)
           sent == [op |-> SessionOp, via |-> Via(sess.held, scratch),
                    scratch |-> scratch, status |-> ans.status, raised |-> Raised(out),
                    live |-> Via(sess.held, scratch) \in x.open]
       IN sess' = [SessionClose(x, scratch) EXCEPT
                       !.log = Append(@, sent),
                       !.failed = Raised(out),
                       !.todo = IF SessionOp = "put_file" /\ Raised(out) = ""
                                THEN @ - 1 ELSE @,
                       !.finished = SessionOp = "put_boilerplate" /\ Raised(out) = ""]
    /\ UNCHANGED <<remote, nextTag, cache, entries, pc, cur, prev, resp, store, shown>>

\* A step of the body that fails without a request: install reads
\* bp.substituted_files of the BoilerplateData that get_boilerplate returned,
\* which has no such attribute; upload bails out when a file of the
\* boilerplate is not found locally.
SessionStep ==
    /\ sess.pc = "body" /\ sess.failed = ""
    /\ \/ /\ sess.cmd = "install" /\ Len(sess.log) = 1
          /\ sess' = [sess EXCEPT !.failed = "AttributeError"]
       \/ /\ sess.cmd = "upload" /\ sess.todo > 0
          /\ sess' = [sess EXCEPT !.failed = "SystemExit"]
    /\ UNCHANGED <<remote, nextTag, cache, entries, pc, cur, prev, resp, store, shown>>

\* The block is left, by its end or by an exception; __exit__:
\* self._session.close().
SessionExit ==
    /\ sess.pc = "body"
    /\ sess.failed # "" \/ sess.finished
    /\ sess' = [SessionClose(sess, sess.held) EXCEPT !.pc = "exited"]
    /\ UNCHANGED <<remote, nextTag, cache, entries, pc, cur, prev, resp, store, shown>>

\* A method of Server called after the block was left: __exit__ closed the
\* session and left it in self._session, which _request reads as before.
SessionLater(op, ans) ==
    /\ sess.pc = "exited"
    /\ Len(sess.log) <= MaxFiles + 1
    /\ LET x == SessionNew(sess)
           scratch == x.made
           sent == [op |-> op, via |-> Via(sess.held, scratch),
                    scratch |-> scratch, status |-> ans.status,
                    raised |-> Raised(Outcome(op, ans)),
                    live |-> Via(sess.held, scratch) \in x.open]
       IN sess' = [SessionClose(x, scratch) EXCEPT !.log = Append(@, sent)]
    /\ UNCHANGED <<remote, nextTag, cache, entries, pc, cur, prev, resp, store, shown>>

NextSession ==
    \/ \E cmd \in Commands, n \in 0..MaxFiles : SessionEnter(cmd, n)
    \/ \E ans \in {Answer(FALSE, c) : c \in StatusCodes} \cup {Answer(TRUE, 0)} :
          SessionRequest(ans)
    \/ SessionStep
    \/ SessionExit
    \/ \E op \in {"get_file", "put_file"}, ans \in {Answer(FALSE, 200), Answer(TRUE, 0)} :
          SessionLater(op, ans)

SpecSession == Init /\ [][NextSession]_vars

(* ------------------------------ the claims ----------------------------- *)

\* The resource of the running call.
K == Key(cur.ns, cur.name)

\* The record the cache store held for it when the call was made.
Cached0 == cur.cache0[K]

Answered == Len(cur.log) >= 1

First == cur.log[1]

Errors ==
    {"NotFound", "BadRequest", "PreconditionFailed", "ConnectionFailure",
     "UnexpectedStatus"}

\* C1: a write on a name whose cached validator V differs from the remote's
\* validator is not applied: the remote keeps its record, the cache record is
\* the one from before the write, and the transport outcome is
\* PreconditionFailed whenever the remote answered the request itself.
C1_StaleWriteRejected ==
    (cur.op = "write" /\ Answered /\ Cached0 # NoData
        /\ First.before.etag # Cached0.etag)
    => /\ First.outcome \in Errors
       /\ ~First.fault => First.outcome = "PreconditionFailed"
       /\ First.after = First.before
       /\ remote[K] = First.before
       /\ cache[K] = Cached0
       /\ pc = "done" /\ Len(cur.log) = 1

C1_Witness ==
    /\ pc = "done" /\ cur.op = "write" /\ Answered
    /\ Cached0 # NoData /\ First.before # NoData
    /\ First.before.etag # Cached0.etag
    /\ First.outcome = "PreconditionFailed" /\ ~First.fault
    /\ First.req.etag = Cached0.etag

\* C2: a write or delete request that the remote applied carried the
\* remote's validator of that moment whenever it carried one, and whenever the
\* cache store held a validator for the name when the call was made, that
\* validator was the remote's.
C2_AppliedOnlyOnSeenState ==
    \A j \in 1..Len(cur.log) :
        (cur.log[j].req.method \in {"put", "delete"} /\ cur.log[j].outcome = "Success")
        => /\ cur.log[j].req.etag # NoTag => cur.log[j].before.etag = cur.log[j].req.etag
           /\ Cached0 # NoData => cur.log[j].before.etag = Cached0.etag

C2_Witness ==
    /\ pc = "done" /\ cur.op = "delete" /\ Answered
    /\ First.outcome = "Success" /\ Cached0 # NoData
    /\ First.req.etag = Cached0.etag /\ First.after = NoData
    /\ nextTag > 2

\* C3: a read of a name that has no cached record sends exactly one fetch,
\* without validator and without timestamp; when it succeeds the cache holds
\* the remote's validator and payload and the read returns that payload.
C3_UncachedReadUnconditional ==
    (pc = "done" /\ cur.op = "read" /\ Cached0 = NoData)
    => /\ Len(cur.log) = 1
       /\ First.req.method = "get"
       /\ First.req.etag = NoTag /\ First.req.since = NoTag
       /\ First.outcome = "Success"
          => /\ cache[K].etag = First.before.etag
             /\ cache[K].content = First.before.content
             /\ cur.ret = First.before.content

\* C4: a read of a name cached with validator V and a payload, the remote's
\* validator being V, sends V; when the remote answers it itself the outcome
\* is NotModified, no payload comes down, the cached payload is returned; the
\* cache record is unchanged.
C4_FreshReadNotModified ==
    (pc = "done" /\ cur.op = "read" /\ Cached0 # NoData
        /\ Cached0.content # NoContent /\ First.before.etag = Cached0.etag)
    => /\ First.req.etag = Cached0.etag
       /\ ~First.fault
          => /\ First.outcome = "NotModified"
             /\ First.down = NoContent
             /\ cur.ret = Cached0.content
       /\ cache[K] = Cached0

\* C5: a read right after a successful write(R, P), nothing else having
\* happened, returns P when the remote answers it itself, with NotModified;
\* the write's second request is a HEAD and no request of the two brings
\* a payload down.
C5_WriteThenRead ==
    (pc = "done" /\ cur.op = "read" /\ prev.op = "write"
        /\ prev.ns = cur.ns /\ prev.name = cur.name /\ ~First.fault)
    => /\ cur.ret = prev.arg
       /\ First.outcome = "NotModified"
       /\ First.down = NoContent
       /\ ~prev.down

\* The request update() makes after its write request went through.
Second == cur.log[2]

C7_ReadAfterWriteDelete ==
    (pc = "done" /\ cur.op = "read" /\ prev.op = "delete" /\ prev.wrote
        /\ prev.ns = cur.ns /\ prev.name = cur.name)
    => /\ Cached0 = NoData
       /\ First.req.etag = NoTag
       /\ First.req.since = NoTag

\* C8: a call that ends with an error outcome of any of its requests leaves
\* the cache store of both namespaces as it was when the call was made.
C8_ErrorKeepsCache ==
    (pc = "done" /\ cur.outcome \in Errors) => cache = cur.cache0

\* update() whose write went through and whose second request failed, on a
\* name that had a cache record.
C8_Witness ==
    /\ pc = "done" /\ cur.op = "write" /\ Len(cur.log) = 2
    /\ cur.outcome = "ConnectionFailure"
    /\ Cached0 # NoData
    /\ remote[K].content = cur.arg
    /\ cache = cur.cache0

\* C9: the conditions of the first request of every call are the validator
\* and timestamp of the record the cache store holds for the name at that
\* time (none when it holds no record).
C9_ConditionsFromStore ==
    pc \in {"fetch", "put", "delete"}
    => /\ cur.req.etag = cache[K].etag
       /\ cur.req.since = cache[K].modified

Outcomes == Errors \cup {"Success", "NotModified"}

InFlight == pc \in {"fetch", "put", "refresh", "delete"}

\* C12: every access of an entry to the cache store opens the shelf, operates
\* and closes it again on every path, the cache miss included: no shelf is
\* open while a request is in flight, nor when the call has returned or raised.
C12_StoreClosedInFlight ==
    (InFlight \/ pc = "done") => store = {}

\* A request in flight after _read_cache ran into the cache miss.
C12_Witness ==
    /\ InFlight /\ Len(cur.log) = 0
    /\ Cached0 = NoData /\ entries[cur.entry].data = NoData
    /\ store = {}

\* C11 (amended): a command inside `with srv:` holds exactly one session for
\* its duration, the one created on entry; every request is sent through it;
\* it is closed when the block is left, by its end or by a failure.  Each
\* request also creates one scratch session, which sends nothing and is
\* closed when the request is over: n requests make n + 1 sessions.
C11_OneSessionHeld ==
    sess.pc # "out"
    => /\ sess.held = 1
       /\ \A j \in 1..Len(sess.log) :
             /\ sess.log[j].via = sess.held
             /\ sess.log[j].scratch # sess.held
       /\ sess.made = 1 + Len(sess.log)
       /\ sess.open = (IF sess.pc = "body" THEN {sess.held} ELSE {})

\* The second file of an upload failed: two requests went through the held
\* session, which is closed.
C11_Witness ==
    /\ sess.pc = "exited" /\ sess.cmd = "upload"
    /\ Len(sess.log) = 2 /\ sess.failed = "PreconditionFailed"
    /\ sess.log[1].via = sess.held /\ sess.log[2].via = sess.held
    /\ sess.open = {}

\* C11 as claimed: the sequence creates exactly one session, every request
\* goes through it, and it is closed when the sequence has exited.
C11_OneSessionCreated ==
    sess.pc = "exited"
    => /\ sess.made = 1
       /\ \A j \in 1..Len(sess.log) : sess.log[j].via = sess.held
       /\ sess.open = {}

\* C13: a read whose transport outcome is NotFound raises NotFound and
\* returns no payload, whatever the cache holds for the name.
C13_NotFoundPropagates ==
    (pc = "done" /\ cur.op = "read" /\ First.outcome = "NotFound")
    => /\ cur.raised = "NotFound"
       /\ cur.ret = NoContent
       /\ Len(cur.log) = 1

\* The remote resource is gone while the cache and the entry hold a payload.
C13_Witness ==
    /\ pc = "done" /\ cur.op = "read" /\ First.outcome = "NotFound"
    /\ ~First.fault /\ First.before = NoData
    /\ Cached0.content # NoContent
    /\ entries[cur.entry].data.content # NoContent
    /\ cur.raised = "NotFound"

\* C14: a delete whose transport outcome is PreconditionFailed or NotFound
\* raises after its one delete request; the remote resource is as it was and
\* so is the cache record.
C14_DeleteFailsOnce ==
    (cur.op = "delete" /\ Answered /\ First.outcome \in {"PreconditionFailed", "NotFound"})
    => /\ pc = "done"
       /\ Len(cur.log) = 1
       /\ First.req.method = "delete"
       /\ cur.raised = First.outcome
       /\ First.after = First.before
       /\ remote[K] = First.before
       /\ cache[K] = Cached0

\* The remote changed after the record was cached: the delete is refused.
C14_Witness ==
    /\ pc = "done" /\ cur.op = "delete" /\ First.outcome = "PreconditionFailed"
    /\ ~First.fault /\ Cached0 # NoData
    /\ remote[K] # NoData /\ remote[K].etag # Cached0.etag
    /\ cache[K] = Cached0

\* C15: after a delete whose transport outcome is Success the cache holds no
\* record for the name, had it one before or not, and no other record is
\* touched; evicting a name without record raises nothing and leaves the
\* store as it was, and evicting again changes nothing.
C15_EvictIdempotent ==
    (pc = "done" /\ cur.op = "delete" /\ First.outcome = "Success")
    => /\ cache[K] = NoData
       /\ cur.raised = ""
       /\ \A k \in Keys \ {K} : cache[k] = cur.cache0[k]
       /\ Cached0 = NoData => cache = cur.cache0
       /\ DeleteCache(cache, cur.ns, cur.name) = cache
       /\ DeleteCacheRaised(cache, cur.ns, cur.name) = ""

\* A resource that was never cached is deleted.
C15_Witness ==
    /\ pc = "done" /\ cur.op = "delete" /\ First.outcome = "Success"
    /\ Cached0 = NoData /\ First.before # NoData /\ First.after = NoData
    /\ cur.raised = "" /\ cache = cur.cache0

\* C16: a call on a name that has no cached record sends its first request
\* without validator and without timestamp and never raises the cache miss;
\* so a write is applied whatever the remote holds, and a delete is applied to
\* whatever the remote holds, when the remote answers the request itself.
C16_UncachedUnconditional ==
    /\ (pc \in {"fetch", "put", "delete"} /\ cache[K] = NoData)
       => (cur.req.etag = NoTag /\ cur.req.since = NoTag)
    /\ (pc = "done" /\ Cached0 = NoData)
       => /\ cur.raised \notin {"NotCached", "KeyError"}
          /\ (cur.op = "write" /\ ~First.fault) => First.outcome = "Success"
          /\ (cur.op = "delete" /\ ~First.fault /\ First.before # NoData)
             => First.outcome = "Success"

\* The exception class each error kind of the transport is raised as.
Kind(outcome) ==
    CASE outcome = "NotFound" -> "NotFound"
      [] outcome = "BadRequest" -> "BadRequest"
      [] outcome = "PreconditionFailed" -> "PreconditionFailed"
      [] outcome = "ConnectionFailure" -> "Error"
      [] outcome = "UnexpectedStatus" -> "Exception"

\* C17: every error kind of the transport reaches the caller of read, write
\* and delete as the kind the transport raised, for files and for
\* boilerplates; no call turns one kind into another or into a generic error.
C17_KindsPropagate ==
    (pc = "done" /\ cur.outcome \in Errors) => cur.raised = Kind(cur.outcome)

C19_ClearEmptiesBoth ==
    [][/\ shown'.cmd = "clear"
          => /\ \A k \in Keys : cache'[k] = NoData
             /\ remote' = remote /\ nextTag' = nextTag
             /\ pc' = "idle" /\ cur' = NoCur
       /\ shown'.cleared
          => /\ shown'.lines = {}
             /\ Listing(cache', "files") = {}
             /\ Listing(cache', "boilerplates") = {}]_vars

\* The boilerplates are listed after a clear that followed a read of one.
C19_Witness ==
    /\ shown.cmd = "boilerplates" /\ shown.cleared /\ shown.lines = {}
    /\ \E i \in EntryIds :
          entries[i].ns = "boilerplates" /\ entries[i].data.content # NoContent
    /\ remote[Key("boilerplates", "a")] # NoData

\* A read or a delete: one request of its method, and none after it.
OneRequest(method) ==
    /\ Len(cur.log) <= 1
    /\ pc = "done" => Len(cur.log) = 1
    /\ Answered => (pc = "done" /\ First.req.method = method)

\* A write: one write request, and one more request only after it succeeded.
WriteRequests ==
    /\ Len(cur.log) <= 2
    /\ pc = "done" => Answered
    /\ Answered => First.req.method = "put"
    /\ (Answered /\ First.outcome # "Success") => (pc = "done" /\ Len(cur.log) = 1)
    /\ (Answered /\ First.outcome = "Success")
       => (IF Len(cur.log) = 1 THEN pc = "refresh" ELSE pc = "done")

Last == cur.log[Len(cur.log)]

\* C21: every call consults the cache store, then the remote, and then
\* returns or raises: the store is read before the first request is sent, and
\* it is written or evicted only after the remote returned Success, never
\* before the remote was consulted.
C21_StepsInOrder ==
    /\ cur.op # "none" => cur.consulted
    /\ pc = "done" => Answered
    /\ (cur.op # "none" /\ cache # cur.cache0)
       => (pc = "done" /\ Answered /\ Last.outcome = "Success" /\ cur.raised = "")
    /\ (cur.op # "none" /\ ~Answered) => (pc = FirstPc(cur.op) /\ cache = cur.cache0)

\* C22: a read of a name cached with a validator the remote no longer has,
\* answered Success, overwrites the cache record with the validator, timestamp
\* and payload of the response and returns the payload of the response.
C22_ChangedReadOverwrites ==
    (pc = "done" /\ cur.op = "read" /\ Cached0 # NoData
        /\ First.before.etag # Cached0.etag /\ First.outcome = "Success")
    => /\ cache[K] = First.before
       /\ cur.ret = First.before.content
       /\ cur.raised = ""
       /\ entries[cur.entry].data = First.before

\* The remote's payload differs from the cached one.
C22_Witness ==
    /\ pc = "done" /\ cur.op = "read" /\ Cached0 # NoData
    /\ First.before.etag # Cached0.etag /\ First.outcome = "Success"
    /\ First.before.content # Cached0.content
    /\ cur.ret = First.before.content /\ cache[K].etag = remote[K].etag

\* The methods of Server behind read, write and delete of an entry.
ConditionalOps ==
    {"get_file", "put_file", "delete_file",
     "get_boilerplate", "put_boilerplate", "delete_boilerplate"}

\* The method that does the same operation in the other namespace.
Twin(op) ==
    CASE op = "get_file" -> "get_boilerplate"
      [] op = "put_file" -> "put_boilerplate"
      [] op = "delete_file" -> "delete_boilerplate"
      [] op = "get_boilerplate" -> "get_file"
      [] op = "put_boilerplate" -> "put_file"
      [] op = "delete_boilerplate" -> "delete_file"

\* C23: for read, write and delete of files and of boilerplates alike, 400 is
\* BadRequest, 404 is NotFound, 412 is PreconditionFailed and 304 on a read is
\* NotModified, and the two namespaces give the same outcome for the same
\* operation and status.
C23_SameClassification ==
    (resp.op \in ConditionalOps /\ ~resp.conn)
    => /\ resp.status = 400 => resp.outcome = "BadRequest"
       /\ resp.status = 404 => resp.outcome = "NotFound"
       /\ resp.status = 412 => resp.outcome = "PreconditionFailed"
       /\ (resp.status = 304 /\ resp.op \in {"get_file", "get_boilerplate"})
          => resp.outcome = "NotModified"
       /\ Classify(Twin(resp.op), resp.status) = resp.outcome

\* C24: whatever other clients do to the remote between and inside this
\* client's calls, a cache record that has the remote's current validator has
\* the remote's current payload; so a read answered NotModified by the remote
\* returns the remote's current content.
C24_CacheCoherent ==
    /\ \A k \in Keys :
          (cache[k] # NoData /\ remote[k] # NoData /\ cache[k].etag = remote[k].etag)
          => cache[k].content = remote[k].content
    /\ (pc = "done" /\ cur.op = "read" /\ First.outcome = "NotModified"
          /\ ~First.fault /\ cur.raised = "")
       => cur.ret = remote[K].content

\* C25: every request is sent through a session that is open: a request
\* made after the block was left does not go through the session that
\* __exit__ closed.
C25_NoClosedSession ==
    \A j \in 1..Len(sess.log) : sess.log[j].live

\* update() whose write request succeeded and whose second request raised
\* an error kind of the transport.
RefreshFailed ==
    /\ pc = "done" /\ cur.op = "write" /\ Len(cur.log) = 2
    /\ First.outcome = "Success" /\ Second.outcome \in Errors

\* C26 (amended): when the write request of a write succeeds and the request
\* that follows it (HEAD for a file, GET for a boilerplate) fails, the write
\* raises that error and the cache record of the name is the one from before
\* the write, or still absent; the remote holds the written payload unless
\* another client changed or deleted the resource after the write request.
C26_RefreshFailureKeepsCache ==
    RefreshFailed
    => /\ cur.raised = Kind(Second.outcome)
       /\ First.after.content = cur.arg
       /\ remote[K] = Second.before
       /\ Second.before = First.after => remote[K].content = cur.arg
       /\ cache[K] = Cached0
       /\ cache = cur.cache0

\* The HEAD after a file's write request met a connection failure; the
\* cache still has the validator from before the write.
C26_Witness ==
    /\ RefreshFailed /\ cur.ns = "files"
    /\ Second.outcome = "ConnectionFailure" /\ cur.raised = "Error"
    /\ Cached0 # NoData /\ cache[K] = Cached0
    /\ remote[K].content = cur.arg /\ remote[K].etag # cache[K].etag

\* C26 as claimed: the write raises the error of the failed request, the
\* remote holds the newly written payload, and the cache record is the one
\* from before the write.
C26_RemoteHoldsWritten ==
    RefreshFailed
    => /\ cur.raised = Kind(Second.outcome)
       /\ remote[K].content = cur.arg
       /\ cache[K] = Cached0

\* C27: every record in the cache store of either namespace has a validator,
\* a timestamp and a payload, at all times.
C27_RecordsComplete ==
    \A k \in Keys :
        cache[k] # NoData
        => /\ cache[k].etag # NoTag
           /\ cache[k].modified # NoTag
           /\ cache[k].content # NoContent

\* Records stored by the two paths that store one: a file written (validator
\* from the HEAD, payload from the caller) and a boilerplate fetched.
C27_Witness ==
    /\ cache[Key("files", "a")].content \in Payloads
    /\ cache[Key("boilerplates", "a")].content \in Payloads
    /\ pc = "done" /\ cur.op = "write" /\ cur.ns = "files" /\ cur.raised = ""
    /\ cache[K] = Data(Second.before.etag, Second.before.modified, cur.arg)

\* C28: a read, write or delete on a name of one namespace changes at most
\* the cache record of that name in that namespace: every other name of the
\* namespace and every record of the other namespace, the same name included,
\* is as it was when the call was made.
C28_OtherRecordsUntouched ==
    cur.op # "none"
    => \A k \in Keys \ {K} : cache[k] = cur.cache0[k]

\* The record of the name changed while another name of the same namespace
\* has a record.
C28_Witness ==
    /\ pc = "done" /\ cur.op \in Ops /\ cache[K] # Cached0
    /\ \E k \in Keys \ {K} :
          k[1] = cur.ns /\ cache[k] # NoData /\ cache[k] = cur.cache0[k]

====
